---- MODULE Spec2Model ----
(***************************************************************************)
(* Model of app.py: a Flask application that reads test.csv with pandas on *)
(* every request, looks a record up by id and answers either with JSON     *)
(* (/on_predict) or with a rendered page (/result).                        *)
(*                                                                         *)
(* Text is modelled as a sequence of pieces: a string literal of the       *)
(* source is one piece, a formatted number contributes one piece per       *)
(* character.  The query parameter is a sequence of single characters.     *)
(***************************************************************************)
EXTENDS Integers, Sequences, FiniteSets, TLC

VARIABLES file, req, resp

vars == <<file, req, resp>>

(***************************************************************************)
(* Bounds of the model.                                                    *)
(***************************************************************************)
\* Largest number of data rows the CSV file grows to.
MaxRows == 11

\* The first FreeRows rows are chosen freely among RowTemplates; the rows
\* after them are the filler rows FillerRow(i).
FreeRows == 2

(***************************************************************************)
(* Program constants.                                                      *)
(***************************************************************************)
\* df.head(10)
PreviewRows == 10

\* to_json() is called without double_precision: pandas encodes floating
\* point values with 10 decimal places.
DoublePrecision == 10

(***************************************************************************)
(* Generic helpers.                                                        *)
(***************************************************************************)
Range(s) == {s[i] : i \in DOMAIN s}

Min(a, b) == IF a < b THEN a ELSE b

Last(s) == s[Len(s)]

\* s contains t as a contiguous run of pieces.
Contains(s, t) ==
    \E i \in 1..(Len(s) - Len(t) + 1) : SubSeq(s, i, i + Len(t) - 1) = t

(***************************************************************************)
(* Exceptions: a call either raises or returns a value.                    *)
(***************************************************************************)
Raise(exc, msg) == [raised |-> TRUE, exc |-> exc, msg |-> msg]

Return(v) == [raised |-> FALSE, value |-> v]

(***************************************************************************)
(* str(int) and int(str), as Python computes them.                         *)
(***************************************************************************)
Digit == <<"0", "1", "2", "3", "4", "5", "6", "7", "8", "9">>

IsDigit(c) == c \in Range(Digit)

DigitVal(c) == (CHOOSE d \in DOMAIN Digit : Digit[d] = c) - 1

RECURSIVE NatToStr(_)
NatToStr(n) ==
    IF n < 10 THEN <<Digit[n + 1]>>
    ELSE NatToStr(n \div 10) \o <<Digit[(n % 10) + 1]>>

\* f"{record_id}": a minus sign for negatives, then the decimal digits.
IntToStr(n) == IF n < 0 THEN <<"-">> \o NatToStr(-n) ELSE NatToStr(n)

RECURSIVE LStrip(_)
LStrip(s) == IF s # <<>> /\ s[1] = " " THEN LStrip(Tail(s)) ELSE s

RECURSIVE RStrip(_)
RStrip(s) ==
    IF s # <<>> /\ Last(s) = " " THEN RStrip(SubSeq(s, 1, Len(s) - 1)) ELSE s

RECURSIVE DigitsValue(_, _)
DigitsValue(s, acc) ==
    IF s = <<>> THEN acc
    ELSE IF s[1] = "_" THEN DigitsValue(Tail(s), acc)
    ELSE DigitsValue(Tail(s), 10 * acc + DigitVal(s[1]))

\* int(text) in base 10: surrounding blanks are stripped, one sign is
\* allowed, digits may be grouped by single underscores; anything else
\* raises ValueError.
ParseInt(text) ==
    LET s      == RStrip(LStrip(text))
        signed == s # <<>> /\ s[1] \in {"+", "-"}
        body   == IF signed THEN Tail(s) ELSE s
        valid  == /\ body # <<>>
                  /\ \A i \in DOMAIN body :
                        \/ IsDigit(body[i])
                        \/ /\ body[i] = "_"
                           /\ i > 1 /\ i < Len(body)
                           /\ IsDigit(body[i - 1]) /\ IsDigit(body[i + 1])
        mag    == DigitsValue(body, 0)
    IN  IF ~valid THEN Raise("ValueError", <<"invalid literal for int()">>)
        ELSE Return(IF signed /\ s[1] = "-" THEN -mag ELSE mag)

(***************************************************************************)
(* Cells of the table as pandas holds them after read_csv: a number        *)
(* m * 10^(-e) (e = 0 for integers) or NaN for an empty cell.              *)
(***************************************************************************)
Num(m, e) == [t |-> "num", m |-> m, e |-> e]

NaN == [t |-> "nan", m |-> 0, e |-> 0]

JsonNull == [t |-> "null", m |-> 0, e |-> 0]

RECURSIVE DropDigits(_, _)
DropDigits(m, k) == IF k = 0 THEN m ELSE DropDigits(m \div 10, k - 1)

RECURSIVE Normalize(_, _)
Normalize(m, e) ==
    IF e > 0 /\ m % 10 = 0 THEN Normalize(m \div 10, e - 1) ELSE Num(m, e)

\* df["id"] == record_id, for one cell: NaN equals nothing.
CellEq(cell, n) == cell.t = "num" /\ cell.e = 0 /\ cell.m = n

\* int(x) of a cell: truncation toward zero; int(nan) raises ValueError.
PyInt(cell) ==
    IF cell.t = "nan"
    THEN Raise("ValueError", <<"cannot convert float NaN to integer">>)
    ELSE Return(IF cell.m >= 0 THEN DropDigits(cell.m, cell.e)
                ELSE -DropDigits(-cell.m, cell.e))

\* json.loads(x.to_json()) for one cell: NaN becomes null, integers are kept,
\* a float is written with DoublePrecision decimal places (the tables of the
\* model hold no exact rounding tie).
to_json(cell) ==
    IF cell.t = "nan" THEN JsonNull
    ELSE IF cell.e <= DoublePrecision THEN Normalize(cell.m, cell.e)
    ELSE LET a == IF cell.m >= 0 THEN cell.m ELSE -cell.m
             t == DropDigits(a, cell.e - DoublePrecision - 1)
             r == (t + 5) \div 10
         IN  Normalize(IF cell.m >= 0 THEN r ELSE -r, DoublePrecision)

(***************************************************************************)
(* The CSV file at CSV_PATH, as read_csv sees it.                          *)
(***************************************************************************)
CSV_PATH == "APP_ROOT/test.csv"

Missing == [exists |-> FALSE, columns |-> <<>>, rows |-> <<>>]

\* Headers a file is created with: the usual one, one without is_fit, one
\* without id, and one with id in another position.
Schemas ==
    { <<"id", "is_fit", "score">>,
      <<"id", "score">>,
      <<"is_fit", "score">>,
      <<"score", "id", "is_fit">> }

\* Rows a file may hold: two rows with id 1 that differ in is_fit, a row
\* whose is_fit is 2 and whose score has 11 decimal places, and a row with
\* an empty is_fit cell.
RowTemplates ==
    { [id |-> Num(1, 0), is_fit |-> Num(1, 0), score |-> Num(5, 1)],
      [id |-> Num(1, 0), is_fit |-> Num(0, 0), score |-> Num(25, 2)],
      [id |-> Num(2, 0), is_fit |-> Num(2, 0), score |-> Num(12, 11)],
      [id |-> Num(2, 0), is_fit |-> NaN,       score |-> Num(75, 2)] }

FillerRow(i) ==
    [id |-> Num(10 + i, 0), is_fit |-> Num(i % 2, 0), score |-> Num(10 * i + 5, 2)]

Restrict(row, cols) == [c \in Range(cols) |-> row[c]]

NextRows(f) ==
    IF Len(f.rows) < FreeRows
    THEN {Restrict(t, f.columns) : t \in RowTemplates}
    ELSE {Restrict(FillerRow(Len(f.rows) + 1), f.columns)}

(***************************************************************************)
(* The id query parameter: request.args.get("id") is None or a string.     *)
(***************************************************************************)
NoParam == [present |-> FALSE, text |-> <<>>]

Param(text) == [present |-> TRUE, text |-> text]

Params ==
    { NoParam,
      Param(<<"1">>), Param(<<"2">>), Param(<<"3">>), Param(<<"2", "1">>),
      Param(<<" ", "1", " ">>), Param(<<"+", "2">>), Param(<<"1", "_", "3">>),
      Param(<<"-", "1">>), Param(<<"1", ".", "0">>), Param(<<>>) }

(***************************************************************************)
(* Responses.                                                              *)
(***************************************************************************)
jsonify(body, status) == [kind |-> "json", status |-> status, body |-> body]

redirect(location) == [kind |-> "redirect", status |-> 302, location |-> location]

render_template(name, context) ==
    [kind |-> "html", status |-> 200, template |-> name, context |-> context]

\* url_for("index"): the route "/".
url_for_index == "/"

NoRequest == [endpoint |-> "none", param |-> NoParam]

NoResponse == [kind |-> "none", status |-> 0]

(***************************************************************************)
(* load_dataframe                                                          *)
(***************************************************************************)
load_dataframe ==
    IF ~file.exists
    THEN Raise("FileNotFoundError",
               <<"CSV not found at ", CSV_PATH,
                 ". Run generate_csv.py to create a sample file.">>)
    ELSE Return([columns |-> file.columns, rows |-> file.rows])

(***************************************************************************)
(* build_prediction_output                                                 *)
(***************************************************************************)
\* Variant of row_match: the comparison written >= instead of ==.
row_match_ge(df, record_id) ==
    SelectSeq(df.rows, LAMBDA r : r["id"].t = "num" /\ r["id"].m >= record_id)

\* df[df["id"] == record_id]
row_match(df, record_id) ==
    SelectSeq(df.rows, LAMBDA r : CellEq(r["id"], record_id))

\* Variant of iloc0: iloc[-1], the last matching row.
iloc_last(rows) == rows[Len(rows)]

\* row_match.iloc[0].to_dict()
iloc0(rows) == rows[1]

\* json.loads(pd.Series(row_dict).to_json())
row_clean(row_dict) == [c \in DOMAIN row_dict |-> to_json(row_dict[c])]

\* Variant of is_fit_value: the default for a missing column is 1.
is_fit_value_default1(row_dict) ==
    PyInt(IF "is_fit" \in DOMAIN row_dict THEN row_dict["is_fit"] ELSE Num(1, 0))

\* int(row_dict.get("is_fit", 0))
is_fit_value(row_dict) ==
    PyInt(IF "is_fit" \in DOMAIN row_dict THEN row_dict["is_fit"] ELSE Num(0, 0))

\* Variant of head: the whole table, no cut at n rows.
head_all(df, n) == df.rows

\* df.head(n)
head(df, n) == SubSeq(df.rows, 1, Min(n, Len(df.rows)))

block_ribbon(row_dict, record_id) ==
    [id        |-> PyInt(IF "id" \in DOMAIN row_dict THEN row_dict["id"]
                         ELSE Num(record_id, 0)).value,
     retrieved |-> row_clean(row_dict)]

block_middle_upper(fit) ==
    [is_fit      |-> fit,
     key_factors |-> "I think the prediction was fit because of training frequency, cardio score, and diet consistency."]

block_middle_lower(df) ==
    [table_rows |-> [i \in 1..Len(head(df, PreviewRows)) |->
                        row_clean(head(df, PreviewRows)[i])],
     columns    |-> df.columns]

block_nearest_neighbors ==
    [k \in {"Nearest neighbors"} |-> "Nearest neighbors"]

\* Variant of narrative: the two words of the conditional swapped.
narrative_swapped(record_id, fit) ==
    <<"For the id ">> \o IntToStr(record_id)
        \o <<", it is predicted as the person is ">>
        \o <<IF fit = 1 THEN "not fit" ELSE "fit">>

\* f"For the id {record_id}, it is predicted as the person is " + (...)
narrative(record_id, fit) ==
    <<"For the id ">> \o IntToStr(record_id)
        \o <<", it is predicted as the person is ">>
        \o <<IF fit = 1 THEN "fit" ELSE "not fit">>

block_right(record_id, fit) == [narrative |-> narrative(record_id, fit)]

build_prediction_output(record_id) ==
    LET ld == load_dataframe
    IN  IF ld.raised THEN ld
        ELSE LET df == ld.value
             IN  IF "id" \notin Range(df.columns)
                 THEN Raise("ValueError", <<"CSV must contain an 'id' column">>)
                 ELSE LET matched == row_match(df, record_id)
                      IN  IF matched = <<>>
                          THEN Raise("ValueError",
                                     <<"No record found for id ">> \o IntToStr(record_id))
                          ELSE LET row_dict == iloc0(matched)
                                   fit      == is_fit_value(row_dict)
                               IN  IF fit.raised THEN fit
                                   ELSE Return(
                                     [block_ribbon            |-> block_ribbon(row_dict, record_id),
                                      block_middle_upper      |-> block_middle_upper(fit.value),
                                      block_middle_lower      |-> block_middle_lower(df),
                                      block_nearest_neighbors |-> block_nearest_neighbors,
                                      block_right             |-> block_right(record_id, fit.value)])

(***************************************************************************)
(* The routes /on_predict and /result.                                     *)
(***************************************************************************)
\* Variant of on_predict: the status code of the error answers left out.
on_predict_no_status(id_param) ==
    IF ~id_param.present
    THEN jsonify([error |-> <<"Missing required query parameter 'id'">>], 200)
    ELSE LET parsed == ParseInt(id_param.text)
         IN  IF parsed.raised
             THEN jsonify([error |-> <<"'id' must be an integer">>], 200)
             ELSE LET built == build_prediction_output(parsed.value)
                  IN  IF built.raised
                      THEN jsonify([error |-> built.msg], 200)
                      ELSE jsonify([output |-> built.value], 200)

\* Variant of on_predict: an error answer is kept and served again to the
\* next request.
on_predict_sticky(id_param) ==
    IF resp.kind = "json" /\ resp.status = 400 THEN resp
    ELSE IF ~id_param.present
    THEN jsonify([error |-> <<"Missing required query parameter 'id'">>], 400)
    ELSE LET parsed == ParseInt(id_param.text)
         IN  IF parsed.raised
             THEN jsonify([error |-> <<"'id' must be an integer">>], 400)
             ELSE LET built == build_prediction_output(parsed.value)
                  IN  IF built.raised
                      THEN jsonify([error |-> built.msg], 400)
                      ELSE jsonify([output |-> built.value], 200)

on_predict(id_param) ==
    IF ~id_param.present
    THEN jsonify([error |-> <<"Missing required query parameter 'id'">>], 400)
    ELSE LET parsed == ParseInt(id_param.text)
         IN  IF parsed.raised
             THEN jsonify([error |-> <<"'id' must be an integer">>], 400)
             ELSE LET built == build_prediction_output(parsed.value)
                  IN  IF built.raised
                      THEN jsonify([error |-> built.msg], 400)
                      ELSE jsonify([output |-> built.value], 200)

\* Variant of result_page: a parameter that is no integer falls back to id 1.
result_page_default_id(id_param) ==
    IF ~id_param.present
    THEN redirect(url_for_index)
    ELSE LET parsed == ParseInt(id_param.text)
             built  == build_prediction_output(IF parsed.raised THEN 1 ELSE parsed.value)
         IN  IF built.raised
             THEN redirect(url_for_index)
             ELSE render_template("result.html", [output |-> built.value])

result_page(id_param) ==
    IF ~id_param.present
    THEN redirect(url_for_index)
    ELSE LET parsed == ParseInt(id_param.text)
         IN  IF parsed.raised
             THEN redirect(url_for_index)
             ELSE LET built == build_prediction_output(parsed.value)
                  IN  IF built.raised
                      THEN redirect(url_for_index)
                      ELSE render_template("result.html", [output |-> built.value])

(***************************************************************************)
(* State machine.  The file is changed only from outside the application;  *)
(* a response is sent and its bundle discarded before the file changes.    *)
(***************************************************************************)
Init ==
    /\ file = Missing
    /\ req = NoRequest
    /\ resp = NoResponse

\* GET /on_predict?id=...
OnPredict(id_param) ==
    /\ req' = [endpoint |-> "/on_predict", param |-> id_param]
    /\ resp' = on_predict(id_param)
    /\ UNCHANGED file

\* GET /result?id=...
ResultPage(id_param) ==
    /\ req' = [endpoint |-> "/result", param |-> id_param]
    /\ resp' = result_page(id_param)
    /\ UNCHANGED file

\* The CSV file is (re)generated with a header and no rows.
CreateFile(cols) ==
    /\ file' = [exists |-> TRUE, columns |-> cols, rows |-> <<>>]
    /\ req' = NoRequest
    /\ resp' = NoResponse

\* A row is appended to the CSV file.
AppendRow ==
    /\ file.exists
    /\ Len(file.rows) < MaxRows
    /\ \E row \in NextRows(file) : file' = [file EXCEPT !.rows = Append(@, row)]
    /\ req' = NoRequest
    /\ resp' = NoResponse

\* The CSV file is removed.
DeleteFile ==
    /\ file.exists
    /\ file' = Missing
    /\ req' = NoRequest
    /\ resp' = NoResponse

Next ==
    \/ \E p \in Params : OnPredict(p)
    \/ \E p \in Params : ResultPage(p)
    \/ \E cols \in Schemas : CreateFile(cols)
    \/ AppendRow
    \/ DeleteFile

Spec == Init /\ [][Next]_vars

(***************************************************************************)
(* Vocabulary of the properties.  In every reachable state with a request, *)
(* resp answers req and the file is the one that request read.             *)
(***************************************************************************)
IsLookup == req.endpoint = "/on_predict"

IsPage == req.endpoint = "/result"

\* The identifier parameter is present and int() accepts it.
HasIntId == req.param.present /\ ~ParseInt(req.param.text).raised

ReqId == ParseInt(req.param.text).value

HasIdColumn(f) == "id" \in Range(f.columns)

\* Indices of the rows of f whose id equals n.
Matches(f, n) == {i \in DOMAIN f.rows : CellEq(f.rows[i]["id"], n)}

\* The first row of f, in table order, whose id equals n.
FirstMatch(f, n) ==
    f.rows[CHOOSE i \in Matches(f, n) : \A j \in Matches(f, n) : i <= j]

\* The request names an integer id that some row of an id-keyed table has.
IdPresent == HasIntId /\ file.exists /\ HasIdColumn(file) /\ Matches(file, ReqId) # {}

\* The request names an integer id that no row of an id-keyed table has.
IdAbsent == HasIntId /\ file.exists /\ HasIdColumn(file) /\ Matches(file, ReqId) = {}

\* A bundle was produced: a success of /on_predict or a rendered /result.
Succeeded ==
    \/ IsLookup /\ resp.status = 200
    \/ IsPage /\ resp.kind = "html"

Bundle == IF IsLookup THEN resp.body.output ELSE resp.context.output

BlockNames ==
    {"block_ribbon", "block_middle_upper", "block_middle_lower",
     "block_nearest_neighbors", "block_right"}

\* A cell as a portable JSON value of the same value: NaN is null.
Portable(cell) == IF cell.t = "nan" THEN JsonNull ELSE cell

(***************************************************************************)
(* Properties.                                                             *)
(***************************************************************************)
\* C1: for every table with an id column and every integer identifier that
\* equals the id of at least one row, /on_predict answers with a success
\* wrapping a bundle whose block_ribbon.id is the requested identifier.
C1_PresentIdSucceeds ==
    (IsLookup /\ IdPresent) =>
        /\ resp.status = 200
        /\ DOMAIN resp.body = {"output"}
        /\ resp.body.output.block_ribbon.id = ReqId

\* C2: for every integer identifier that matches no row (file present, id
\* column present), /on_predict answers 400 with the record-not-found message
\* naming the identifier and no bundle, and /result redirects to the listing.
C2_AbsentIdNotFound ==
    IdAbsent =>
        /\ IsLookup =>
              /\ resp.kind = "json"
              /\ resp.status = 400
              /\ resp.body = [error |-> <<"No record found for id ">> \o IntToStr(ReqId)]
        /\ IsPage =>
              /\ resp.kind = "redirect"
              /\ resp.location = "/"

C2_Witness ==
    /\ IsLookup /\ IdAbsent
    /\ Len(file.rows) > 0
    /\ ReqId < 0
    /\ resp.status = 400

\* The request falls under one of the four error kinds: identifier missing
\* or no integer, file missing, no id column, no row with the id.
ErrorKind ==
    \/ ~req.param.present
    \/ ParseInt(req.param.text).raised
    \/ ~file.exists
    \/ ~HasIdColumn(file)
    \/ Matches(file, ReqId) = {}

\* C3: for each of the four error kinds /on_predict answers with a client
\* error carrying an error message, never a success, and /result answers
\* with a redirect to the listing, never a rendered page.
C3_ErrorsAnswered ==
    ErrorKind =>
        /\ IsLookup =>
              /\ resp.kind = "json"
              /\ resp.status = 400
              /\ DOMAIN resp.body = {"error"}
              /\ resp.body.error # <<>>
        /\ IsPage =>
              /\ resp.kind = "redirect"
              /\ resp.location = "/"

C3_Witness ==
    /\ IsLookup
    /\ file.exists /\ ~HasIdColumn(file) /\ Len(file.rows) > 0
    /\ HasIntId
    /\ resp.status = 400

\* C4 as stated: in every bundle block_middle_upper.is_fit is exactly 0 or
\* 1, and it is 0 whenever the table has no is_fit column.
C4_FlagIsZeroOrOne ==
    Succeeded =>
        /\ Bundle.block_middle_upper.is_fit \in {0, 1}
        /\ "is_fit" \notin Range(file.columns) => Bundle.block_middle_upper.is_fit = 0

\* C4 as amended: in every bundle block_middle_upper.is_fit is int() of the
\* is_fit cell of the matched row, hence exactly 0 or 1 whenever that cell
\* holds 0 or 1 (and 2 when it holds 2), and it is 0 whenever the table has
\* no is_fit column.
C4_FlagFromCell ==
    Succeeded =>
        LET flag == Bundle.block_middle_upper.is_fit
            row  == FirstMatch(file, ReqId)
        IN  /\ "is_fit" \notin Range(file.columns) => flag = 0
            /\ "is_fit" \in Range(file.columns) =>
                  /\ row["is_fit"].t = "num"
                  /\ row["is_fit"].e = 0 => flag = row["is_fit"].m
                  /\ row["is_fit"] \in {Num(0, 0), Num(1, 0)} => flag \in {0, 1}

C4_Witness ==
    /\ Succeeded
    /\ "is_fit" \notin Range(file.columns)
    /\ Bundle.block_middle_upper.is_fit = 0

\* C5: in every bundle block_right.narrative contains the requested
\* identifier literally and ends with "fit", not preceded by "not", when the
\* fit flag is 1, and with "not fit" when the fit flag is 0.
C5_Narrative ==
    Succeeded =>
        LET text == Bundle.block_right.narrative
            flag == Bundle.block_middle_upper.is_fit
        IN  /\ Contains(text, IntToStr(ReqId))
            /\ flag = 1 => Last(text) = "fit"
            /\ flag = 0 => Last(text) = "not fit"

C5_Witness ==
    /\ Succeeded
    /\ Bundle.block_middle_upper.is_fit = 1
    /\ Last(Bundle.block_right.narrative) = "fit"
    /\ ReqId > 9

\* C6: in every bundle block_middle_lower.table_rows is the prefix of the
\* source table of length min(10, number of rows), in source order, whatever
\* identifier was requested (each row in the JSON form the bundle carries),
\* and block_middle_lower.columns is the list of source columns in source
\* order.
C6_Preview ==
    Succeeded =>
        /\ Bundle.block_middle_lower.table_rows =
              [i \in 1..Min(10, Len(file.rows)) |->
                  [c \in Range(file.columns) |-> to_json(file.rows[i][c])]]
        /\ Bundle.block_middle_lower.columns = file.columns

C6_Witness ==
    /\ Succeeded
    /\ Len(file.rows) > 10
    /\ Len(Bundle.block_middle_lower.table_rows) = 10
    /\ Matches(file, ReqId) = {Len(file.rows)}

\* C7: every successful lookup response holds exactly the five named blocks
\* and block_ribbon.retrieved has one entry for every column of the source
\* table, holding the matched row's value for that column.
C7_NoFieldLost ==
    (IsLookup /\ resp.status = 200) =>
        /\ DOMAIN resp.body.output = BlockNames
        /\ DOMAIN resp.body.output.block_ribbon.retrieved = Range(file.columns)
        /\ \A c \in Range(file.columns) :
              resp.body.output.block_ribbon.retrieved[c]
                  = Portable(FirstMatch(file, ReqId)[c])

\* The request resolves: an integer identifier, a file with an id column, a
\* row with that id whose is_fit cell, if any, is a number.
Resolves(p, f) ==
    /\ p.present
    /\ ~ParseInt(p.text).raised
    /\ f.exists
    /\ HasIdColumn(f)
    /\ Matches(f, ParseInt(p.text).value) # {}
    /\ "is_fit" \in Range(f.columns) =>
          FirstMatch(f, ParseInt(p.text).value)["is_fit"].t = "num"

\* C8: after any sequence of requests, the outcome of the next request is
\* determined by its identifier parameter and the content of the file at
\* that time only: a request leaves the file as it is, and it succeeds
\* exactly when its parameter resolves in the file as it then is, with the
\* columns of that file, whatever was requested and answered before.
C8_RequestsIndependent ==
    [][req' # NoRequest =>
          /\ file' = file
          /\ (resp'.kind \in {"json", "html"} /\ resp'.status = 200)
                <=> Resolves(req'.param, file)
          /\ (resp'.kind = "json" /\ resp'.status = 200) =>
                resp'.body.output.block_middle_lower.columns = file.columns
          /\ (resp'.kind = "html") =>
                resp'.context.output.block_middle_lower.columns = file.columns
          /\ req'.endpoint = "/on_predict" <=> resp'.kind = "json"
      ]_vars

C8_Witness ==
    /\ IsPage
    /\ resp.kind = "html"
    /\ file.columns = <<"score", "id", "is_fit">>
    /\ Len(file.rows) = 3

\* C9: when several rows have the requested id, the ribbon block, the fit
\* flag and the narrative are built from the first of them in table order.
C9_FirstMatchWins ==
    (Succeeded /\ Cardinality(Matches(file, ReqId)) > 1) =>
        LET row  == FirstMatch(file, ReqId)
            flag == IF "is_fit" \in DOMAIN row THEN row["is_fit"].m ELSE 0
        IN  /\ Bundle.block_ribbon.id = row["id"].m
            /\ Bundle.block_ribbon.retrieved = [c \in DOMAIN row |-> to_json(row[c])]
            /\ Bundle.block_middle_upper.is_fit = flag
            /\ Last(Bundle.block_right.narrative)
                  = IF flag = 1 THEN "fit" ELSE "not fit"

C9_Witness ==
    /\ Succeeded
    /\ "is_fit" \in Range(file.columns)
    /\ \E i, j \in Matches(file, ReqId) :
          /\ i < j
          /\ file.rows[i]["is_fit"] = Num(0, 0)
          /\ file.rows[j]["is_fit"] = Num(1, 0)
    /\ Bundle.block_middle_upper.is_fit = 0

\* C10: for the same identifier parameter and the same file, /on_predict
\* succeeds if and only if /result renders the page, both then carry the
\* same bundle, and /on_predict answers with a client error exactly when
\* /result redirects.
C10_EndpointsAgree ==
    req # NoRequest =>
        LET json == IF IsLookup THEN resp ELSE on_predict(req.param)
            page == IF IsPage THEN resp ELSE result_page(req.param)
        IN  /\ json.status = 200 <=> page.kind = "html"
            /\ json.status = 400 <=> page.kind = "redirect"
            /\ json.status = 200 => json.body.output = page.context.output

C10_Witness ==
    /\ IsLookup
    /\ resp.status = 200
    /\ result_page(req.param).kind = "html"
    /\ resp.body.output = result_page(req.param).context.output
    /\ req.param.text = <<"+", "2">>

====
